---- MODULE Spec2Model ----
(***************************************************************************)
(* A model of planedict.PlaneDict (src/planedict/planedict.py): a mapping  *)
(* whose keys are paths into a tree of nested dicts.                       *)
(*                                                                         *)
(* Python dicts are objects with identity, and PlaneDict hands references  *)
(* to them around (a facade built over a nested dict copies the top level  *)
(* and shares everything below), so the store is modelled as a heap of     *)
(* dict objects.  A dict is a sequence of entries in insertion order (the  *)
(* order of OrderedDict, and of dict on CPython >= 3.7).                   *)
(*                                                                         *)
(* Two facades are alive at most: d, built from a seed, and the facade the *)
(* last d[path] returned.  The values stored by d[path] = value,           *)
(* setdefault and pop's default are leaves; nested dicts enter the store   *)
(* through seeds and through update from a raw dict.  pop, popitem,        *)
(* setdefault, clear, update and == are the mixins PlaneDict inherits from *)
(* collections.MutableMapping, written out over __getitem__, __setitem__,  *)
(* __delitem__ and __iter__.                                               *)
(***************************************************************************)
EXTENDS Naturals, Sequences, FiniteSets, TLC

\* ------------------------------------------------------------------ bounds
\* longest flat path specification the calls are given
MaxPathLen == 3
\* number of calls made on the facades after construction
MaxCalls == 1

Atoms == {"key1", "key2"}
Values == {"val1", "val2"}

\* ------------------------------------------------------------- python data
\* A dict key is an atom (string) or a tuple of atoms.
AtomKey(a) == [tup |-> FALSE, el |-> <<a>>]
TupleKey(s) == [tup |-> TRUE, el |-> s]

\* A dict entry: key k bound to a leaf value (ref = 0) or to the dict object
\* at heap address ref.
LeafEntry(k, v) == [k |-> k, ref |-> 0, val |-> v]
BranchEntry(k, a) == [k |-> k, ref |-> a, val |-> ""]

\* A nested dict as a value (seeds, update sources, snapshots): a sequence of
\* items; a leaf item carries val, a dict item carries its items in sub.
LeafItem(k, v) == [k |-> k, isd |-> FALSE, val |-> v, sub |-> <<>>]
DictItem(k, t) == [k |-> k, isd |-> TRUE, val |-> "", sub |-> t]

\* A value handed to __setitem__: a leaf or a raw nested dict.
LeafValue(v) == [isd |-> FALSE, val |-> v, sub |-> <<>>]
DictValue(t) == [isd |-> TRUE, val |-> "", sub |-> t]

\* position of key k in dict d, 0 when absent (k in d)
Index(d, k) ==
  IF \E i \in 1..Len(d) : d[i].k = k
  THEN CHOOSE i \in 1..Len(d) : d[i].k = k
  ELSE 0

\* (a d[k] = e that leaves an existing binding alone)
DictSetKeep(d, e) ==
  IF Index(d, e.k) = 0 THEN Append(d, e) ELSE d

\* d[k] = e: replaces the binding in place, or appends a new one
DictSet(d, e) ==
  IF Index(d, e.k) = 0 THEN Append(d, e)
  ELSE [d EXCEPT ![Index(d, e.k)] = e]

\* (a del d[k] that drops the last binding, whatever k is)
DictDelLast(d, i) == SubSeq(d, 1, Len(d) - 1)

\* del d[k], for k at position i
DictDel(d, i) == [j \in 1..(Len(d) - 1) |-> IF j < i THEN d[j] ELSE d[j + 1]]

\* _factory(): the address of a fresh dict object
NewAddr(h) == CHOOSE n \in 1..(Cardinality(DOMAIN h) + 1) : n \notin DOMAIN h

\* ------------------------------------------------------ path normalisation
\* A path specification: a scalar, or an iterable (list or tuple) of
\* specifications.
Scalar(a) == [kind |-> "scalar", a |-> a, items |-> <<>>]
ListSpec(items) == [kind |-> "list", a |-> "", items |-> items]
TupleSpec(items) == [kind |-> "tuple", a |-> "", items |-> items]

\* the key a non-unfolded element stands for: a scalar, or a tuple of scalars
KeyOf(p) ==
  IF p.kind = "scalar" THEN AtomKey(p.a)
  ELSE TupleKey([i \in 1..Len(p.items) |-> p.items[i].a])

RECURSIVE seq_iter(_)
seq_iter(iterable) ==
  IF iterable = <<>> THEN <<>>
  ELSE LET p == Head(iterable)
       IN (IF p.kind = "list" THEN seq_iter(p.items) ELSE <<KeyOf(p)>>)
            \o seq_iter(Tail(iterable))

check_path(path) ==
  IF path.kind = "scalar" THEN <<AtomKey(path.a)>>
  ELSE seq_iter(path.items)

\* the tuple a path is when handed back to the caller (a key of __iter__)
PathAsSpec(p) ==
  TupleSpec([i \in 1..Len(p) |->
    IF p[i].tup THEN TupleSpec([j \in 1..Len(p[i].el) |-> Scalar(p[i].el[j])])
    ELSE Scalar(p[i].el[1])])

\* ------------------------------------------------------------------- heap
\* A heap maps the addresses of the live dict objects to their entries.

\* dict.update(seq) on the fresh dict at address a, seq a raw nested dict:
\* the nested dicts of seq become objects of the heap
RECURSIVE alloc_items(_, _, _)
alloc_items(h, a, t) ==
  IF t = <<>> THEN h
  ELSE LET e == Head(t)
       IN IF e.isd
          THEN LET n == NewAddr(h)
                   h1 == alloc_items((n :> <<>>) @@ h, n, e.sub)
               IN alloc_items([h1 EXCEPT ![a] = DictSet(@, BranchEntry(e.k, n))],
                              a, Tail(t))
          ELSE alloc_items([h EXCEPT ![a] = DictSet(@, LeafEntry(e.k, e.val))],
                           a, Tail(t))

\* d[k] = value, the value a leaf or a raw nested dict
StoreValue(h, d, k, value) ==
  IF value.isd
  THEN LET n == NewAddr(h)
           h1 == alloc_items((n :> <<>>) @@ h, n, value.sub)
       IN [h1 EXCEPT ![d] = DictSet(@, BranchEntry(k, n))]
  ELSE [h EXCEPT ![d] = DictSet(@, LeafEntry(k, value.val))]

\* the nested dict at address a, as a value
RECURSIVE TreeOf(_, _)
TreeOf(h, a) ==
  [i \in 1..Len(h[a]) |->
     IF h[a][i].ref = 0 THEN LeafItem(h[a][i].k, h[a][i].val)
     ELSE DictItem(h[a][i].k, TreeOf(h, h[a][i].ref))]

\* the addresses reachable from the dicts in todo
RECURSIVE Reach(_, _, _)
Reach(h, todo, seen) ==
  IF todo = {} THEN seen
  ELSE LET a == CHOOSE x \in todo : TRUE
           kids == {h[a][i].ref : i \in 1..Len(h[a])} \ {0}
       IN Reach(h, (todo \cup kids) \ (seen \cup {a}), seen \cup {a})

\* dict objects nobody refers to any more are released
Collect(h, roots) ==
  LET live == Reach(h, roots \ {0}, {}) IN [a \in live |-> h[a]]

\* ------------------------------------------------------------ __getitem__
\* The loop of __getitem__: items is the object reached so far (a dict at
\* address ref, or a leaf val).
RECURSIVE walk(_, _, _)
walk(h, items, path) ==
  IF path = <<>> THEN [err |-> "none", ref |-> items.ref, val |-> items.val]
  ELSE IF items.ref = 0 THEN [err |-> "KeyError", ref |-> 0, val |-> ""]
  ELSE LET i == Index(h[items.ref], Head(path))
       IN IF i = 0 THEN [err |-> "KeyError", ref |-> 0, val |-> ""]
          ELSE walk(h, h[items.ref][i], Tail(path))

getitem(h, root, path) == walk(h, [ref |-> root, val |-> ""], path)

\* self._type(items): a new facade whose _dict is a fresh dict updated from
\* items, so it has the entries of items and shares the dicts they refer to
NewFacade(h, items) ==
  LET n == NewAddr(h) IN [h |-> (n :> h[items]) @@ h, root |-> n]

\* ------------------------------------------------------------ __setitem__
RECURSIVE set_key(_, _, _, _)
set_key(h, d, p, value) ==
  LET k == Head(p)
      i == Index(h[d], k)
  IN IF Len(p) = 1 THEN StoreValue(h, d, k, value)
     ELSE IF i # 0 /\ h[d][i].ref # 0
          THEN set_key(h, h[d][i].ref, Tail(p), value)
          ELSE LET n == NewAddr(h)
                   h1 == (n :> <<>>) @@ [h EXCEPT ![d] = DictSet(@, BranchEntry(k, n))]
               IN set_key(h1, n, Tail(p), value)

setitem(h, root, path, value) ==
  IF path = <<>> THEN [err |-> "IndexError", h |-> h]
  ELSE [err |-> "none", h |-> set_key(h, root, path, value)]

\* ------------------------------------------------------------ __delitem__
\* (an is_empty that never reports an empty dict, so nothing is pruned)
is_emptyNever(d) == FALSE

is_empty(d) == d = <<>>

\* d is the object reached so far, as in walk; the result says whether the
\* dict it was removed from is now empty
RECURSIVE remove_key(_, _, _)
remove_key(h, d, p) ==
  LET k == Head(p)
      fail == [err |-> "KeyError", h |-> h, empty |-> FALSE]
  IN IF d.ref = 0 THEN fail
     ELSE LET i == Index(h[d.ref], k)
          IN IF i = 0 THEN fail
             ELSE IF Len(p) = 1
             THEN LET h1 == [h EXCEPT ![d.ref] = DictDel(@, i)]
                  IN [err |-> "none", h |-> h1, empty |-> is_empty(h1[d.ref])]
             ELSE LET r == remove_key(h, h[d.ref][i], Tail(p))
                  IN IF r.err # "none" THEN fail
                     ELSE IF r.empty
                     THEN LET h2 == [r.h EXCEPT ![d.ref] = DictDel(@, Index(@, k))]
                          IN [err |-> "none", h |-> h2, empty |-> is_empty(h2[d.ref])]
                     ELSE [err |-> "none", h |-> r.h, empty |-> FALSE]

delitem(h, root, path) ==
  IF path = <<>> THEN [err |-> "IndexError", h |-> h]
  ELSE LET r == remove_key(h, [ref |-> root, val |-> ""], path)
       IN [err |-> r.err, h |-> r.h]

\* --------------------------------------------------------------- __iter__
\* the paths of the leaves below the entries d, depth first, p the path so far
RECURSIVE recurs_iter(_, _, _)
recurs_iter(h, d, p) ==
  IF d = <<>> THEN <<>>
  ELSE LET next_p == Append(p, Head(d).k)
       IN (IF Head(d).ref # 0 THEN recurs_iter(h, h[Head(d).ref], next_p)
           ELSE <<next_p>>)
          \o recurs_iter(h, Tail(d), p)

iter(h, root) == recurs_iter(h, h[root], <<>>)

len(h, root) == Len(iter(h, root))

\* ---------------------------------------------------------------- __init__
\* PlaneDict(seq), seq a raw nested dict or a sequence of pairs: a fresh
\* _dict updated from seq.  The result is the heap and the address of _dict.
init(h, seq) ==
  LET n == NewAddr(h) IN [h |-> alloc_items((n :> <<>>) @@ h, n, seq), root |-> n]

\* the tuple a path is as a dict key
PathAsKey(p) == TupleKey([i \in 1..Len(p) |-> p[i].el[1]])

\* PlaneDict(seq), seq a facade: `seq or []` is [] for a facade of length 0;
\* otherwise dict.update(seq) binds, for every k of seq.keys(), k to seq[k],
\* and the keys of a facade are its paths.  The result is the new _dict.
RECURSIVE init_items(_, _, _)
init_items(h, root, keys) ==
  IF keys = <<>> THEN <<>>
  ELSE <<LeafItem(PathAsKey(Head(keys)),
                  getitem(h, root, check_path(PathAsSpec(Head(keys)))).val)>>
       \o init_items(h, root, Tail(keys))

init_facade(h, root) ==
  IF len(h, root) = 0 THEN <<>> ELSE init_items(h, root, iter(h, root))

\* ----------------------------------------- what a call hands to its caller
NoRes == [kind |-> "none", val |-> "", path |-> <<>>, tree |-> <<>>]
LeafRes(v) == [kind |-> "leaf", val |-> v, path |-> <<>>, tree |-> <<>>]
FacadeRes(t) == [kind |-> "facade", val |-> "", path |-> <<>>, tree |-> t]
ItemRes(p, v) == [kind |-> "item", val |-> v, path |-> p, tree |-> <<>>]
BoolRes(b) == [kind |-> IF b THEN "True" ELSE "False", val |-> "", path |-> <<>>, tree |-> <<>>]

\* the value of self[path]: the leaf, or a facade over the dict found
ResultOf(h, g) ==
  IF g.ref # 0 THEN FacadeRes(TreeOf(h, g.ref)) ELSE LeafRes(g.val)

\* ------------------------------------- the mixins of MutableMapping
\* pop(key[, default]): default.given says whether one was passed
pop(h, root, key, default) ==
  LET g == getitem(h, root, check_path(key))
  IN IF g.err = "KeyError"
     THEN IF default.given
          THEN [err |-> "none", h |-> h, res |-> LeafRes(default.val)]
          ELSE [err |-> "KeyError", h |-> h, res |-> NoRes]
     ELSE LET r == delitem(h, root, check_path(key))
          IN [err |-> r.err, h |-> r.h,
              res |-> IF r.err = "none" THEN ResultOf(h, g) ELSE NoRes]

\* (a popitem that takes the last key of iter(self))
popitem_last(h, root) ==
  LET keys == iter(h, root)
  IN IF keys = <<>> THEN [err |-> "KeyError", h |-> h, res |-> NoRes]
     ELSE LET k == keys[Len(keys)]
              g == getitem(h, root, k)
              r == delitem(h, root, k)
          IN [err |-> r.err, h |-> r.h, res |-> ItemRes(k, g.val)]

\* popitem(): the first key of iter(self), its value, and its removal
popitem(h, root) ==
  LET keys == iter(h, root)
  IN IF keys = <<>> THEN [err |-> "KeyError", h |-> h, res |-> NoRes]
     ELSE LET key == PathAsSpec(Head(keys))
              g == getitem(h, root, check_path(key))
              r == delitem(h, root, check_path(key))
          IN IF g.err # "none" THEN [err |-> g.err, h |-> h, res |-> NoRes]
             ELSE [err |-> r.err, h |-> r.h,
                   res |-> IF r.err = "none" THEN ItemRes(Head(keys), g.val) ELSE NoRes]

setdefault(h, root, key, default) ==
  LET g == getitem(h, root, check_path(key))
  IN IF g.err = "KeyError"
     THEN LET r == setitem(h, root, check_path(key), LeafValue(default))
          IN [err |-> r.err, h |-> r.h,
              res |-> IF r.err = "none" THEN LeafRes(default) ELSE NoRes]
     ELSE [err |-> "none", h |-> h, res |-> ResultOf(h, g)]

\* clear(): popitem() until it raises KeyError
RECURSIVE clear(_, _)
clear(h, root) ==
  LET r == popitem(h, root)
  IN IF r.err = "KeyError" THEN h ELSE clear(r.h, root)

\* a dict key as the path specification it is when handed to __setitem__
KeyAsSpec(k) ==
  IF k.tup THEN TupleSpec([i \in 1..Len(k.el) |-> Scalar(k.el[i])])
  ELSE Scalar(k.el[1])

\* update(other), other a facade whose _dict is at address src:
\* for key in other: self[key] = other[key], the keys being other's paths
RECURSIVE update_facade(_, _, _, _)
update_facade(h, root, src, keys) ==
  IF keys = <<>> THEN h
  ELSE LET key == PathAsSpec(Head(keys))
           g == getitem(h, src, check_path(key))
       IN update_facade(setitem(h, root, check_path(key), LeafValue(g.val)).h,
                        root, src, Tail(keys))

\* update(other), other a raw dict or a sequence of pairs:
\* for key in other: self[key] = other[key], the keys being the top-level ones
RECURSIVE update_raw(_, _, _)
update_raw(h, root, other) ==
  IF other = <<>> THEN h
  ELSE LET e == Head(other)
           value == IF e.isd THEN DictValue(e.sub) ELSE LeafValue(e.val)
       IN update_raw(setitem(h, root, check_path(KeyAsSpec(e.k)), value).h,
                     root, Tail(other))

\* (an update that treats a facade like a raw dict)
update_shallow(h, root, other) == update_raw(h, root, other.tree)

\* (an update that treats a raw dict like a facade)
update_deep(h, root, other) ==
  LET o == init(h, other.tree)
  IN update_facade(o.h, root, o.root, iter(o.h, o.root))

\* other: [facade |-> whether it is a PlaneDict, tree |-> the dict it holds]
update(h, root, other) ==
  IF other.facade
  THEN LET o == init(h, other.tree)
       IN update_facade(o.h, root, o.root, iter(o.h, o.root))
  ELSE update_raw(h, root, other.tree)

\* items(): (key, self[key]) for every key of iter(self)
RECURSIVE items_of(_, _, _)
items_of(h, root, keys) ==
  IF keys = <<>> THEN {}
  ELSE {[path |-> Head(keys),
         val |-> getitem(h, root, check_path(PathAsSpec(Head(keys)))).val]}
       \cup items_of(h, root, Tail(keys))

items(h, root) == items_of(h, root, iter(h, root))

\* Python's == between a path (a tuple of keys) and a dict key
PathEqKey(p, k) ==
  /\ k.tup
  /\ Len(k.el) = Len(p)
  /\ \A i \in 1..Len(p) : ~p[i].tup /\ p[i].el = <<k.el[i]>>

\* Mapping.__eq__: dict(self.items()) == dict(other.items()) whenever other
\* is a Mapping, which a raw dict is
eq(h, root, other) ==
  LET mine == items(h, root)
  IN IF other.facade
     THEN LET o == init(h, other.tree) IN mine = items(o.h, o.root)
     ELSE /\ Cardinality(mine) = Len(other.tree)
          /\ \A m \in mine : \E j \in 1..Len(other.tree) :
               /\ PathEqKey(m.path, other.tree[j].k)
               /\ ~other.tree[j].isd
               /\ other.tree[j].val = m.val

\* ------------------------------------------------------------- the inputs
K1 == AtomKey("key1")
K2 == AtomKey("key2")

\* the nested dict of the documentation's examples, on two key names
DocSeed ==
  << DictItem(K1, <<LeafItem(K1, "val1"), LeafItem(K2, "val2")>>),
     DictItem(K2, <<DictItem(K1, <<LeafItem(K2, "val2")>>)>>) >>

\* what PlaneDict() is given: nothing, the documentation's dict, a flat dict
\* (or a sequence of pairs), dicts that hold an empty dict, and dicts with
\* leaves two, three and four keys down
Seeds ==
  { <<>>,
    DocSeed,
    <<LeafItem(K1, "val1"), LeafItem(K2, "val2")>>,
    <<DictItem(K1, <<>>), LeafItem(K2, "val1")>>,
    <<DictItem(K1, <<DictItem(K2, <<>>)>>)>>,
    <<DictItem(K1, <<DictItem(K1, <<LeafItem(K1, "val1")>>), LeafItem(K2, "val2")>>)>>,
    <<DictItem(K2, <<DictItem(K2, <<LeafItem(K2, "val2")>>)>>)>>,
    <<DictItem(K1, <<LeafItem(K1, "val1")>>),
      DictItem(K2, <<LeafItem(K1, "val1"), LeafItem(K2, "val2")>>)>>,
    <<LeafItem(K2, "val2"), DictItem(K1, <<LeafItem(K2, "val1"), LeafItem(K1, "val2")>>)>>,
    <<DictItem(K1, <<DictItem(K2, <<DictItem(K1, <<LeafItem(K2, "val1")>>)>>)>>)>> }

\* what update() is given, as a raw dict and wrapped in a PlaneDict
UpdateTrees ==
  { <<DictItem(K1, <<LeafItem(K2, "val1")>>)>>,
    <<LeafItem(K2, "val1")>>,
    <<DictItem(K2, <<DictItem(K1, <<LeafItem(K1, "val2")>>)>>), LeafItem(K1, "val2")>>,
    <<DictItem(K2, <<>>)>> }

Others(trees) == {[facade |-> f, tree |-> t] : f \in BOOLEAN, t \in trees}

NoOther == [facade |-> FALSE, tree |-> <<>>]

\* flat lists of keys, the usual path
FlatSpecs ==
  UNION { { ListSpec([i \in 1..n |-> Scalar(f[i])]) : f \in [1..n -> Atoms] }
          : n \in 0..MaxPathLen }

\* the other shapes of NOTES 5: a single key, a tuple, nested lists
OtherSpecs ==
  { Scalar(a) : a \in Atoms } \cup
  { TupleSpec(<<>>),
    ListSpec(<<ListSpec(<<>>)>>),
    TupleSpec(<<Scalar("key1"), Scalar("key2")>>),
    ListSpec(<<ListSpec(<<Scalar("key1")>>), ListSpec(<<ListSpec(<<Scalar("key2")>>)>>)>>),
    TupleSpec(<<ListSpec(<<Scalar("key2"), Scalar("key1")>>), ListSpec(<<Scalar("key2")>>)>>) }

PathSpecs == FlatSpecs \cup OtherSpecs

Defaults == {[given |-> FALSE, val |-> ""], [given |-> TRUE, val |-> "val1"]}

\* --------------------------------------------------------------- the state
VARIABLES
  heap,      \* the live dict objects
  facade,    \* the _dict of the facade d (main) and of the facade last
             \* returned by d[path] (view, 0 when there is none)
  prev,      \* heap and facade as they were before the last call
  last,      \* the last call: its arguments and its outcome
  calls      \* the number of calls made

vars == <<heap, facade, prev, last, calls>>

Call(op, t, path, val, src, err, res) ==
  [op |-> op, on |-> t, path |-> path, val |-> val, src |-> src,
   err |-> err, res |-> res]

Init ==
  /\ \E seq \in Seeds :
       LET i == init(<<>>, seq)
       IN /\ heap = i.h
          /\ facade = [main |-> i.root, view |-> 0]
          /\ prev = [heap |-> i.h, facade |-> [main |-> i.root, view |-> 0]]
  /\ last = Call("init", "main", <<>>, "", NoOther, "none", NoRes)
  /\ calls = 0

Targets == {"main"} \cup (IF facade.view # 0 THEN {"view"} ELSE {})

\* a call returns to its caller, h the heap it leaves
Return(h, call) ==
  /\ calls' = calls + 1
  /\ prev' = [heap |-> heap, facade |-> facade]
  /\ heap' = Collect(h, {facade.main, facade.view})
  /\ facade' = facade
  /\ last' = call

\* v = d[key]; a facade returned by the main facade is kept as the view
GetItem ==
  \E t \in Targets, key \in PathSpecs :
    /\ calls < MaxCalls
    /\ LET path == check_path(key)
           g == getitem(heap, facade[t], path)
       IN IF g.err = "none" /\ g.ref # 0 /\ t = "main"
          THEN LET f == NewFacade(heap, g.ref)
               IN /\ calls' = calls + 1
                  /\ prev' = [heap |-> heap, facade |-> facade]
                  /\ heap' = Collect(f.h, {facade.main, f.root})
                  /\ facade' = [facade EXCEPT !.view = f.root]
                  /\ last' = Call("get", t, path, "", NoOther, "none", ResultOf(heap, g))
          ELSE Return(heap, Call("get", t, path, "", NoOther, g.err,
                                 IF g.err = "none" THEN ResultOf(heap, g) ELSE NoRes))

\* d[key] = value
SetItem ==
  \E t \in Targets, key \in PathSpecs, value \in Values :
    /\ calls < MaxCalls
    /\ LET path == check_path(key)
           r == setitem(heap, facade[t], path, LeafValue(value))
       IN Return(r.h, Call("set", t, path, value, NoOther, r.err, NoRes))

\* del d[key]
DelItem ==
  \E t \in Targets, key \in PathSpecs :
    /\ calls < MaxCalls
    /\ LET path == check_path(key)
           r == delitem(heap, facade[t], path)
       IN Return(r.h, Call("del", t, path, "", NoOther, r.err, NoRes))

Pop ==
  \E t \in Targets, key \in PathSpecs, default \in Defaults :
    /\ calls < MaxCalls
    /\ LET r == pop(heap, facade[t], key, default)
       IN Return(r.h, Call("pop", t, check_path(key), default.val, NoOther, r.err, r.res))

PopItem ==
  \E t \in Targets :
    /\ calls < MaxCalls
    /\ LET r == popitem(heap, facade[t])
       IN Return(r.h, Call("popitem", t, <<>>, "", NoOther, r.err, r.res))

SetDefault ==
  \E t \in Targets, key \in PathSpecs, default \in Values :
    /\ calls < MaxCalls
    /\ LET r == setdefault(heap, facade[t], key, default)
       IN Return(r.h, Call("setdefault", t, check_path(key), default, NoOther, r.err, r.res))

Clear ==
  \E t \in Targets :
    /\ calls < MaxCalls
    /\ Return(clear(heap, facade[t]), Call("clear", t, <<>>, "", NoOther, "none", NoRes))

Update ==
  \E t \in Targets, other \in Others(UpdateTrees) :
    /\ calls < MaxCalls
    /\ Return(update(heap, facade[t], other),
              Call("update", t, <<>>, "", other, "none", NoRes))

\* d == other, for a few fixed others and for the dict d holds itself
Eq ==
  \E t \in Targets :
  \E other \in Others(Seeds \cup {TreeOf(heap, facade[t]),
                                 <<LeafItem(TupleKey(<<"key1">>), "val1")>>}) :
    /\ calls < MaxCalls
    /\ Return(heap, Call("eq", t, <<>>, "", other, "none",
                         BoolRes(eq(heap, facade[t], other))))

\* PlaneDict(d)
Construct ==
  \E t \in Targets :
    /\ calls < MaxCalls
    /\ Return(heap, Call("construct", t, <<>>, "", NoOther, "none",
                         FacadeRes(init_facade(heap, facade[t]))))

Next ==
  \/ GetItem
  \/ SetItem
  \/ DelItem
  \/ Pop
  \/ PopItem
  \/ SetDefault
  \/ Clear
  \/ Update
  \/ Eq
  \/ Construct

Spec == Init /\ [][Next]_vars

\* ------------------------------------------------- vocabulary of the claims
IsPrefix(p, q) == Len(p) <= Len(q) /\ SubSeq(q, 1, Len(p)) = p

Overlap(p, q) == IsPrefix(p, q) \/ IsPrefix(q, p)

\* the (path, value) leaves of a nested dict, in order, read off its value
RECURSIVE TreeLeaves(_, _)
TreeLeaves(t, p) ==
  IF t = <<>> THEN <<>>
  ELSE (IF Head(t).isd THEN TreeLeaves(Head(t).sub, Append(p, Head(t).k))
        ELSE <<[path |-> Append(p, Head(t).k), val |-> Head(t).val]>>)
       \o TreeLeaves(Tail(t), p)

Range(q) == {q[i] : i \in 1..Len(q)}

\* the paths of the dicts nested in a dict (the root, <<>>, is not one)
RECURSIVE TreeBranches(_, _)
TreeBranches(t, p) ==
  IF t = <<>> THEN {}
  ELSE (IF Head(t).isd
        THEN {Append(p, Head(t).k)} \cup TreeBranches(Head(t).sub, Append(p, Head(t).k))
        ELSE {})
       \cup TreeBranches(Tail(t), p)

\* the node (a leaf or a dict) at path p of a nested dict, none when absent
RECURSIVE TreeAt(_, _)
TreeAt(t, p) ==
  LET i == Index(t, Head(p))
  IN IF i = 0 THEN [kind |-> "absent", val |-> "", sub |-> <<>>]
     ELSE IF Len(p) = 1
     THEN [kind |-> IF t[i].isd THEN "dict" ELSE "leaf", val |-> t[i].val, sub |-> t[i].sub]
     ELSE IF t[i].isd THEN TreeAt(t[i].sub, Tail(p))
     ELSE [kind |-> "absent", val |-> "", sub |-> <<>>]

RECURSIVE TreeHasEmpty(_)
TreeHasEmpty(t) ==
  \E i \in 1..Len(t) : t[i].isd /\ (t[i].sub = <<>> \/ TreeHasEmpty(t[i].sub))

\* the store of the facade the last call was made on, before and after it
Before == TreeOf(prev.heap, prev.facade[last.on])
After == TreeOf(heap, facade[last.on])

Prefixes(p) == {SubSeq(p, 1, n) : n \in 1..(Len(p) - 1)}

C2_DeleteLeaf ==
  (last.op = "del" /\ last.path # <<>> /\ TreeAt(Before, last.path).kind = "leaf") =>
    /\ last.err = "none"
    /\ getitem(heap, facade[last.on], last.path).err = "KeyError"
    /\ TreeLeaves(After, <<>>)
         = SelectSeq(TreeLeaves(Before, <<>>), LAMBDA m : m.path # last.path)
    /\ TreeBranches(After, <<>>)
         = TreeBranches(Before, <<>>) \
             { q \in Prefixes(last.path) :
                 /\ \A m \in Range(TreeLeaves(Before, <<>>)) :
                      IsPrefix(q, m.path) => m.path = last.path
                 /\ \A b \in TreeBranches(Before, <<>>) :
                      IsPrefix(q, b) => IsPrefix(b, last.path) }

\* a delete that pruned one ancestor and stopped at the next, which was not
\* the root
C2_Witness ==
  /\ last.op = "del"
  /\ last.err = "none"
  /\ Len(last.path) = 3
  /\ TreeAt(Before, last.path).kind = "leaf"
  /\ TreeAt(After, SubSeq(last.path, 1, 2)).kind = "absent"
  /\ TreeAt(After, SubSeq(last.path, 1, 1)).kind = "dict"

NoEmptyBranch(t) == ~TreeHasEmpty(t)

SourceLeaves == Range(TreeLeaves(last.src.tree, <<>>))

\* C4: update(source), source a facade: afterwards get(P) returns V for every
\* leaf (P, V) of source, and every leaf of the target whose path overlaps no
\* leaf path of source is still there with its value.
C4_SoftUpdate ==
  (last.op = "update" /\ last.src.facade) =>
    /\ last.err = "none"
    /\ \A s \in SourceLeaves :
         getitem(heap, facade[last.on], s.path)
           = [err |-> "none", ref |-> 0, val |-> s.val]
    /\ \A m \in Range(TreeLeaves(Before, <<>>)) :
         (\A s \in SourceLeaves : ~Overlap(m.path, s.path))
           => m \in Range(TreeLeaves(After, <<>>))

\* a leaf of the target kept beside a leaf of the source, below the same key
C4_Witness ==
  /\ last.op = "update"
  /\ last.src.facade
  /\ \E m \in Range(TreeLeaves(Before, <<>>)) : \E s \in SourceLeaves :
       /\ m.path[1] = s.path[1]
       /\ Len(m.path) > 1
       /\ \A s2 \in SourceLeaves : ~Overlap(m.path, s2.path)
       /\ m \in Range(TreeLeaves(After, <<>>))

TopKeys(t) == {t[i].k : i \in 1..Len(t)}

C6_ViewShares ==
  ( /\ last.op = "get" /\ last.on = "main" /\ last.err = "none"
    /\ last.res.kind = "facade" /\ last.path # <<>> ) =>
    \A key \in PathSpecs, V \in Values :
      LET Q == check_path(key)
          leaf == [err |-> "none", ref |-> 0, val |-> V]
      IN Q # <<>> =>
           /\ getitem(setitem(heap, facade.view, Q, LeafValue(V)).h,
                      facade.main, last.path \o Q) = leaf
           /\ getitem(setitem(heap, facade.main, last.path \o Q, LeafValue(V)).h,
                      facade.view, Q) = leaf

\* C7: a facade never equals a raw mapping, and equals another facade exactly
\* when their sets of (path, value) leaves are equal.
C7_Equality ==
  (last.op = "eq") =>
    IF last.src.facade
    THEN (last.res.kind = "True")
           <=> (Range(TreeLeaves(Before, <<>>)) = Range(TreeLeaves(last.src.tree, <<>>)))
    ELSE last.res.kind = "False"

C9_CopyOfFacade ==
  (last.op = "construct") =>
    LET copy == init(<<>>, last.res.tree)
    IN /\ eq(heap, facade[last.on], [facade |-> TRUE, tree |-> last.res.tree])
       /\ \A m \in Range(TreeLeaves(Before, <<>>)) :
            getitem(copy.h, copy.root, m.path)
              = [err |-> "none", ref |-> 0, val |-> m.val]

\* C10: get, set and delete with a path specification that normalizes to no
\* key fail, return nothing and leave the store as it was.
C10_EmptyPathFails ==
  (last.op \in {"get", "set", "del"} /\ last.path = <<>>) =>
    /\ last.err # "none"
    /\ last.res = NoRes
    /\ After = Before

====
